---------------------------- MODULE Spec2Model ----------------------------
(***************************************************************************)
(* Model of backend/main.py of youtube-language-learner: the term          *)
(* normalizer (get_base_term), the duplicate checker (check_duplicates),   *)
(* the deck submitter (send_to_anki), the two generation routes and the    *)
(* caption source (process_video).                                         *)
(*                                                                         *)
(* A Python str is modelled as a sequence of atoms.  An atom is a whole    *)
(* word ("cats"), one space (" "), or one punctuation mark ("(" , ")").    *)
(* Concatenation is \o, so building and comparing keys is real work.       *)
(***************************************************************************)
EXTENDS Integers, Sequences, FiniteSets, TLC

VARIABLES
    request,    \* the request the last handler served
    response,   \* what that handler returned (status, detail or body)
    calls,      \* outbound calls that handler issued, in order, with replies
    deck,       \* notes held by the deck service (AnkiConnect)
    accepted,   \* history: <<words, term_translation>> of every stored submit
    files,      \* downloads/<id>.en.vtt : the caption text saved per video id
    local,      \* process_video: where the handler is, and its local variables
    outputs     \* successive results of get_base_term on one term

vars == <<request, response, calls, deck, accepted, files, local, outputs>>

---------------------------------------------------------------------------
(* Bounds of the model                                                     *)

MaxWords == 3       \* words per request in the normalizer runs
MaxCards == 2       \* flashcards per deck request
MaxTracks == 2      \* caption tracks per caption set
MaxItems == 2       \* elements of a JSON list in a reply of the generation service

---------------------------------------------------------------------------
(* Strings                                                                 *)

SPACE == " "

\* SeqsUpTo(S, n): all sequences over S of length at most n
SeqsUpTo(S, n) == UNION {[1..k -> S] : k \in 0..n}

\* str.lower(): per atom; only the capitalised atoms of the vocabulary change
LowerAtom(a) ==
    CASE a = "Went" -> "went"
      [] a = "Cats" -> "cats"
      [] OTHER -> a

Lower(s) == [i \in 1..Len(s) |-> LowerAtom(s[i])]

\* str.strip(): drop leading and trailing whitespace
RECURSIVE LStrip(_)
LStrip(s) == IF s # <<>> /\ Head(s) = SPACE THEN LStrip(Tail(s)) ELSE s

RECURSIVE RStrip(_)
RStrip(s) ==
    IF s # <<>> /\ s[Len(s)] = SPACE THEN RStrip(SubSeq(s, 1, Len(s) - 1)) ELSE s

Strip(s) == RStrip(LStrip(s))

\* sep.join(parts): parts is a sequence of strings
RECURSIVE Join(_, _)
Join(sep, parts) ==
    IF parts = <<>> THEN <<>>
    ELSE IF Len(parts) = 1 THEN parts[1]
    ELSE parts[1] \o sep \o Join(sep, Tail(parts))

---------------------------------------------------------------------------
(* Term normalizer                                                         *)

IRREGULAR_VERBS ==
    { "be", "was", "were", "been", "is", "are", "am",
      "buy", "bought",
      "go", "went", "gone",
      "do", "did", "done",
      "have", "had",
      "make", "made",
      "say", "said",
      "see", "saw", "seen",
      "take", "took", "taken",
      "get", "got", "gotten",
      "think", "thought",
      "know", "knew", "known",
      "come", "came",
      "find", "found",
      "give", "gave", "given",
      "tell", "told" }

\* `s in IRREGULAR_VERBS` for a str s: s is exactly one member of the set
InIrregular(s) == Len(s) = 1 /\ s[1] \in IRREGULAR_VERBS

\* nlp(text): the tokenizer of the language pipeline.  It cuts the text at
\* every change between whitespace and non-whitespace; one space after a
\* token is that token's trailing space, and whatever whitespace is left of
\* a longer run is a token of its own.
RECURSIVE Scan(_, _, _, _, _)
Scan(s, i, start, in_ws, acc) ==
    IF i > Len(s)
    THEN IF start <= Len(s) THEN Append(acc, SubSeq(s, start, Len(s))) ELSE acc
    ELSE IF (s[i] = SPACE) # in_ws
         THEN Scan(s, i + 1,
                   IF s[i] = SPACE THEN i + 1 ELSE i,
                   ~in_ws,
                   IF start < i THEN Append(acc, SubSeq(s, start, i - 1)) ELSE acc)
         ELSE Scan(s, i + 1, start, in_ws, acc)

Tokenize(s) == IF s = <<>> THEN <<>> ELSE Scan(s, 1, 1, s[1] = SPACE, <<>>)

IsSpaceToken(tok) == tok # <<>> /\ \A i \in 1..Len(tok) : tok[i] = SPACE

\* token.lemma_ : the dictionary form the pipeline gives a word; a whitespace
\* token is its own lemma
LemmaAtom(a) ==
    CASE a = "cats" -> "cat"
      [] a = "going" -> "go"
      [] a = "went" -> "go"
      [] a = "gone" -> "go"
      [] a = "running" -> "run"
      [] OTHER -> a

Lemma(tok) ==
    IF IsSpaceToken(tok) THEN tok ELSE [i \in 1..Len(tok) |-> LemmaAtom(tok[i])]

\* the list comprehension of get_base_term: one entry per token
LemmaOrText(tok) == IF InIrregular(tok) THEN tok ELSE Lemma(tok)

\* a mutant: the exception set is ignored and every token is lemmatized
get_base_term_lemmatize_all(term) ==
    LET doc == Tokenize(Strip(Lower(term)))
    IN  Join(<<SPACE>>, [i \in 1..Len(doc) |-> Lemma(doc[i])])

get_base_term(term) ==
    LET lower_term == Strip(Lower(term))
        doc == Tokenize(lower_term)
    IN  IF InIrregular(lower_term)
        THEN lower_term
        ELSE Join(<<SPACE>>, [i \in 1..Len(doc) |-> LemmaOrText(doc[i])])

\* " ".join(request.words)
JoinWords(words) == Join(<<SPACE>>, words)

---------------------------------------------------------------------------
(* Specification of the normalizer: a term is drawn, get_base_term is      *)
(* applied to it and then to its own result.                               *)

\* One word of a request: a vocabulary word or the empty string
NormWords == { <<"Went">>, <<"gone">>, <<"cats">>, <<"going">>, <<"cat">>, <<>> }

NormWordLists == SeqsUpTo(NormWords, MaxWords)

Idle == [op |-> "none"]

\* A message or error detail: its fixed text and the numbers formatted into
\* it; `wraps` is the status of the exception whose str() it embeds (0: none)
Message(text, failed, total, added) ==
    [prefix |-> "", wraps |-> 0, text |-> text,
     failed |-> failed, total |-> total, added |-> added]

NoMessage == Message("", 0, 0, 0)

\* a returned dict (status 200) or a raised HTTPException
Response(status, message, body) ==
    [status |-> status, message |-> message, body |-> body]

\* no handler has answered yet
NoResponse == Response(0, NoMessage, <<>>)

\* no caption file saved; no handler of process_video under way
NoFiles == {}
NoLocal == [pc |-> "none"]

InitNorm ==
    /\ request \in {[op |-> "normalize", words |-> ws, term |-> JoinWords(ws)] :
                        ws \in NormWordLists}
    /\ response = NoResponse
    /\ calls = <<>>
    /\ deck = {}
    /\ accepted = {}
    /\ files = NoFiles
    /\ local = NoLocal
    /\ outputs = <<>>

\* get_base_term applied once more: to the term, then to the last result
Normalize ==
    /\ request.op = "normalize"
    /\ Len(outputs) < 2
    /\ outputs' = Append(outputs,
                         get_base_term(IF outputs = <<>> THEN request.term
                                       ELSE outputs[Len(outputs)]))
    /\ UNCHANGED <<request, response, calls, deck, accepted, files, local>>

NextNorm == Normalize

SpecNorm == InitNorm /\ [][NextNorm]_vars


\* C6: a term whose tokens all belong to the irregular-verb set (after
\* lower-casing) is returned as lower(trim(term)): no token is replaced by
\* its lemma.  The tokens are those of the pipeline's tokenizer.
AllIrregular(term) ==
    LET doc == Tokenize(Strip(Lower(term)))
    IN  \A i \in 1..Len(doc) : InIrregular(doc[i])

C6_IrregularTermUnchanged ==
    (request.op = "normalize" /\ Len(outputs) >= 1 /\ AllIrregular(request.term))
        => outputs[1] = Strip(Lower(request.term))

\* a two-word term of irregular verbs, one capitalised, whose lemmas differ
\* from the words, has been normalized
C6_Witness ==
    /\ request.op = "normalize"
    /\ request.term = <<"Went", SPACE, "gone">>
    /\ Len(outputs) >= 1
    /\ outputs[1] = <<"went", SPACE, "gone">>
    /\ LemmaAtom("went") # "went"

\* C7: get_base_term is idempotent: applied to its own result it returns
\* that result.
C7_Idempotent ==
    (request.op = "normalize" /\ Len(outputs) = 2) => outputs[2] = outputs[1]

---------------------------------------------------------------------------
(* Deck service (AnkiConnect) and the two handlers that talk to it         *)

\* request.words of the deck routes in this model
DeckWordLists == { << <<"cats">> >>, << <<"Went">> >> }

\* base_term = get_base_term(" ".join(request.words)), tabulated once over
\* the word lists of the model
base_term_of[ws \in DeckWordLists] == get_base_term(JoinWords(ws))

BaseTerm(words) == base_term_of[words]

DECK_NAME == "ENGLISH-A2"
MODEL_NAME == "YTLearner-Advanced"

\* GeneratedFlashcard
Card(sentence, translation, term_tr) ==
    [english_sentence |-> sentence,
     portuguese_translation |-> translation,
     term_translation |-> term_tr]

\* the outcome of a try block: a value returned or an exception raised
Returned(message, body) ==
    [raised |-> "", status |-> 200, message |-> message, body |-> body]

Raised(type, status, message) ==
    [raised |-> type, status |-> status, message |-> message, body |-> <<>>]

\* a findNotes query: deck:"d" [note:m] field:"value"
Query(note_type, field, value) ==
    [action |-> "findNotes", deck |-> DECK_NAME, note |-> note_type,
     field |-> field, value |-> value]

\* f"{base_term}({card.term_translation})" in check_duplicates (a mutant
\* that forgets the parentheses comes first)
check_unique_id_bare(base_term, card) == base_term \o card.term_translation

check_unique_id(base_term, card) ==
    base_term \o <<"(">> \o card.term_translation \o <<")">>

\* f"{base_term}({card.term_translation})" in send_to_anki
send_unique_id(base_term, card) ==
    base_term \o <<"(">> \o card.term_translation \o <<")">>

\* the two actions appended for one card
CardActions(base_term, card) ==
    << Query("", "UniqueID", check_unique_id(base_term, card)),
       Query("Basic", "Front", base_term) >>

RECURSIVE MultiActions(_, _)
MultiActions(base_term, flashcards) ==
    IF flashcards = <<>> THEN <<>>
    ELSE CardActions(base_term, Head(flashcards))
            \o MultiActions(base_term, Tail(flashcards))

\* the payload of check_duplicates
MultiPayload(req) ==
    [action |-> "multi", version |-> 6,
     items |-> MultiActions(BaseTerm(req.words), req.flashcards)]

\* the requests check_duplicates posts to the deck service: always one
check_duplicates_calls(req) == << MultiPayload(req) >>

\* [{"flashcard": c, "is_duplicate": False} for c in request.flashcards]
NotDuplicates(flashcards) ==
    [i \in 1..Len(flashcards) |->
        [flashcard |-> flashcards[i], is_duplicate |-> FALSE]]

\* the for loop over enumerate(request.flashcards)
PairedResults(flashcards, all_results) ==
    [i \in 1..Len(flashcards) |->
        [flashcard |-> flashcards[i],
         is_duplicate |-> (all_results[2 * i - 1] # {}) \/ (all_results[2 * i] # {})]]

\* mutants of check_duplicates: the second result of a card is read from the
\* next card's slot; a failure of the deck service is surfaced as an error
PairedResultsShifted(flashcards, all_results) ==
    [i \in 1..Len(flashcards) |->
        [flashcard |-> flashcards[i],
         is_duplicate |-> (all_results[2 * i - 1] # {})
                            \/ (2 * i + 1 <= Len(all_results)
                                    /\ all_results[2 * i + 1] # {})]]

check_duplicates_shifted(req, reply) ==
    IF reply.kind = "ok"
    THEN Response(200, NoMessage, PairedResultsShifted(req.flashcards, reply.result))
    ELSE Response(200, NoMessage, NotDuplicates(req.flashcards))

check_duplicates_strict(req, reply) ==
    IF reply.kind = "ok"
    THEN Response(200, NoMessage, PairedResults(req.flashcards, reply.result))
    ELSE Response(503, Message("Conexao com o Anki falhou", 0, 0, 0), <<>>)

\* check_duplicates, given the reply to its one call
check_duplicates(req, reply) ==
    IF reply.kind = "transport"
    THEN \* except requests.exceptions.RequestException
         Response(200, NoMessage, NotDuplicates(req.flashcards))
    ELSE IF reply.kind = "error"
    THEN \* if multi_response.get("error")
         Response(200, NoMessage, NotDuplicates(req.flashcards))
    ELSE Response(200, NoMessage, PairedResults(req.flashcards, reply.result))

\* one entry of notes_to_add
Note(base_term, card) ==
    [deckName |-> DECK_NAME,
     modelName |-> MODEL_NAME,
     fields |-> { <<"UniqueID", send_unique_id(base_term, card)>>,
                  <<"Term", base_term>>,
                  <<"Meaning", card.term_translation>>,
                  <<"ExampleSentence", card.english_sentence>>,
                  <<"ExampleTranslation", card.portuguese_translation>> },
     tags |-> {"youtube_learner"}]

\* notes_to_add: one note per card, in request order
NotesToAdd(req) ==
    LET base_term == BaseTerm(req.words)
    IN  [i \in 1..Len(req.flashcards) |-> Note(base_term, req.flashcards[i])]

AddNotesPayload(req) ==
    [action |-> "addNotes", version |-> 6, items |-> NotesToAdd(req)]

\* the requests send_to_anki posts: none when notes_to_add is empty (a
\* mutant that posts the empty batch too comes first)
send_to_anki_calls_always(req) == << AddNotesPayload(req) >>

send_to_anki_calls(req) ==
    IF NotesToAdd(req) = <<>> THEN <<>> ELSE << AddNotesPayload(req) >>

\* errors_found = [item for item in anki_result if item is None]
NullCount(result) == Cardinality({i \in 1..Len(result) : result[i] = "null"})

\* the body of the try block of send_to_anki
SendTry(req, reply) ==
    LET n == Len(NotesToAdd(req))
        failed == NullCount(reply.result)
        success_count == n - failed
    IN  IF reply.kind = "transport"
        THEN Raised("RequestException", 0, NoMessage)
        ELSE IF reply.kind = "error"
        THEN Raised("HTTPException", 400, Message("Erro do AnkiConnect", 0, 0, 0))
        ELSE IF failed > 0
        THEN Raised("HTTPException", 400,
                    Message("cartoes falharam", failed, n,
                            IF success_count > 0 THEN success_count ELSE 0))
        ELSE Returned(Message("flashcards foram enviados para o Anki com sucesso",
                              0, n, 0), <<>>)

\* the except clauses of send_to_anki, in source order: RequestException,
\* then Exception, which an HTTPException raised in the try block also is
SendExcept(outcome) ==
    IF outcome.raised = ""
    THEN Response(200, outcome.message, outcome.body)
    ELSE IF outcome.raised = "RequestException"
    THEN Response(503, Message("Conexao com o Anki falhou", 0, 0, 0), <<>>)
    ELSE Response(500,
                  [outcome.message EXCEPT !.prefix = "Ocorreu um erro inesperado",
                                          !.wraps = outcome.status],
                  <<>>)

\* a mutant: a failed connection falls into the generic clause
SendExceptGeneric(outcome) ==
    IF outcome.raised = ""
    THEN Response(200, outcome.message, outcome.body)
    ELSE Response(500,
                  [outcome.message EXCEPT !.prefix = "Ocorreu um erro inesperado",
                                          !.wraps = outcome.status],
                  <<>>)

send_to_anki_generic(req, reply) ==
    IF NotesToAdd(req) = <<>>
    THEN Response(200, Message("Nenhum card novo para adicionar", 0, 0, 0), <<>>)
    ELSE SendExceptGeneric(SendTry(req, reply))

\* send_to_anki, given the reply to its call (unused when nothing is sent)
send_to_anki(req, reply) ==
    IF NotesToAdd(req) = <<>>
    THEN Response(200, Message("Nenhum card novo para adicionar", 0, 0, 0), <<>>)
    ELSE SendExcept(SendTry(req, reply))

---------------------------------------------------------------------------
(* The deck service                                                        *)

\* findNotes: the notes of the deck that carry the field value asked for
FindNotes(q, notes) ==
    { n \in notes : /\ n.deckName = q.deck
                    /\ (q.note = "" \/ n.modelName = q.note)
                    /\ <<q.field, q.value>> \in n.fields }

\* a note of the default note type, made by hand in the deck; the deck of
\* this model starts with one, whose Front is "went"
BasicNote(front) ==
    [deckName |-> DECK_NAME, modelName |-> "Basic",
     fields |-> { <<"Front", front>>, <<"Back", <<"gato">>>> },
     tags |-> {}]

\* what the deck service can answer to a posted payload: the connection
\* fails, the call reports a top-level error, or it is served
NoReply == [kind |-> "none", result |-> <<>>]

\* replies to a multi of findNotes
MultiReplies(payload, notes) ==
    { [kind |-> "transport", result |-> <<>>],
      [kind |-> "error", result |-> <<>>],
      [kind |-> "ok",
       result |-> [i \in 1..Len(payload.items) |-> FindNotes(payload.items[i], notes)]] }

\* replies to addNotes: per note an id or null, in order
AddNotesReplies(payload) ==
    { [kind |-> "transport", result |-> <<>>],
      [kind |-> "error", result |-> <<>>] }
    \cup { [kind |-> "ok", result |-> r] :
              r \in [1..Len(payload.items) -> {"id", "null"}] }

\* the notes the deck service stores when it serves addNotes with `reply`
Stored(payload, reply) ==
    IF reply.kind = "ok"
    THEN { payload.items[i] : i \in { j \in 1..Len(payload.items) : reply.result[j] = "id" } }
    ELSE {}

---------------------------------------------------------------------------
(* Specification of the deck routes                                        *)

CardA == Card(<<"s1">>, <<"p1">>, <<"gato">>)
CardB == Card(<<"s2">>, <<"p2">>, <<"foi">>)
Cards == {CardA, CardB}

CardLists == SeqsUpTo(Cards, MaxCards)

CheckRequests ==
    { [op |-> "check_duplicates", words |-> ws, flashcards |-> fs] :
        ws \in DeckWordLists, fs \in CardLists }

SendRequests ==
    { [op |-> "send_to_anki", words |-> ws, flashcards |-> fs] :
        ws \in DeckWordLists, fs \in CardLists }

InitDeck ==
    /\ request = Idle
    /\ response = NoResponse
    /\ calls = <<>>
    /\ deck = {BasicNote(<<"went">>)}
    /\ accepted = {}
    /\ files = NoFiles
    /\ local = NoLocal
    /\ outputs = <<>>

\* POST /api/check-duplicates
CheckDuplicates ==
    \E req \in CheckRequests :
        LET posts == check_duplicates_calls(req)
        IN  \E reply \in MultiReplies(posts[1], deck) :
                /\ request' = req
                /\ calls' = [i \in 1..Len(posts) |-> [payload |-> posts[i], reply |-> reply]]
                /\ response' = check_duplicates(req, reply)
                /\ UNCHANGED <<deck, accepted, files, local, outputs>>

\* POST /api/send-to-anki
SendToAnki ==
    \E req \in SendRequests :
        LET posts == send_to_anki_calls(req)
        IN  \E reply \in (IF posts = <<>> THEN {NoReply} ELSE AddNotesReplies(posts[1])) :
                /\ request' = req
                /\ calls' = [i \in 1..Len(posts) |-> [payload |-> posts[i], reply |-> reply]]
                /\ response' = send_to_anki(req, reply)
                /\ deck' = deck \cup (IF posts = <<>> THEN {} ELSE Stored(posts[1], reply))
                /\ accepted' = accepted \cup
                      (IF posts = <<>> \/ reply.kind # "ok" THEN {}
                       ELSE { <<req.words, req.flashcards[i].term_translation>> :
                                i \in { j \in 1..Len(req.flashcards) : reply.result[j] = "id" } })
                /\ UNCHANGED <<files, local, outputs>>

NextDeck == CheckDuplicates \/ SendToAnki

SpecDeck == InitDeck /\ [][NextDeck]_vars

---------------------------------------------------------------------------
(* Claims about the deck routes                                            *)

IsSend == request.op = "send_to_anki"
IsCheck == request.op = "check_duplicates"

\* the reply the deck service gave to the handler's call
Posted == calls # <<>>
LastReply == calls[1].reply
LastPayload == calls[1].payload

NumCards == Len(request.flashcards)

\* C1: when addNotes is served with no top-level error and k nulls among the
\* n results, 0 < k < n, send_to_anki answers 400 with a message that counts
\* k failed of n and n - k added.
C1_PartialFailureIs400 ==
    (IsSend /\ Posted /\ LastReply.kind = "ok"
        /\ 0 < NullCount(LastReply.result) /\ NullCount(LastReply.result) < NumCards)
    => /\ response.status = 400
       /\ response.message = Message("cartoes falharam",
                                     NullCount(LastReply.result), NumCards,
                                     NumCards - NullCount(LastReply.result))

\* C2: when the deck service is unreachable, raises a transport error or
\* reports an error for the combined call, check_duplicates returns normally
\* with one entry per candidate, in request order, none a duplicate.
C2_FailureMeansNoDuplicates ==
    (IsCheck /\ Posted /\ LastReply.kind \in {"transport", "error"})
    => /\ response.status = 200
       /\ Len(response.body) = NumCards
       /\ \A i \in 1..NumCards :
            /\ response.body[i].flashcard = request.flashcards[i]
            /\ response.body[i].is_duplicate = FALSE

\* two candidates, the first already stored under the same words, are checked
\* while the deck service fails
C2_Witness ==
    /\ IsCheck /\ Posted
    /\ LastReply.kind = "error"
    /\ NumCards = 2
    /\ <<request.words, request.flashcards[1].term_translation>> \in accepted
    /\ response.status = 200
    /\ response.body[1].is_duplicate = FALSE

\* C3: once a submit of a candidate under words w was stored by the deck
\* service, every later check_duplicates served by the deck service flags a
\* candidate with the same term_translation under the same words.
C3_StoredIsFlagged ==
    (IsCheck /\ Posted /\ LastReply.kind = "ok")
    => \A i \in 1..NumCards :
          <<request.words, request.flashcards[i].term_translation>> \in accepted
            => response.body[i].is_duplicate

\* a stored candidate is flagged by its UniqueID alone (no Basic note has
\* the term as its Front), next to a candidate that was never stored
C3_Witness ==
    /\ IsCheck /\ Posted /\ LastReply.kind = "ok"
    /\ NumCards = 2
    /\ LastReply.result[2] = {}
    /\ <<request.words, request.flashcards[1].term_translation>> \in accepted
    /\ response.body[1].is_duplicate
    /\ ~response.body[2].is_duplicate

\* C5: send_to_anki with at least one candidate answers 503 when the call to
\* the deck service fails in transport, and answers 503 in no other case.
C5_TransportFailureIs503 ==
    IsSend =>
       /\ (NumCards >= 1 /\ Posted /\ LastReply.kind = "transport")
            => /\ response.status = 503
               /\ response.message.text = "Conexao com o Anki falhou"
       /\ response.status = 503 => (Posted /\ LastReply.kind = "transport")

C5_Witness ==
    /\ IsSend /\ Posted
    /\ NumCards = 2
    /\ LastReply.kind = "transport"
    /\ response.status = 503

\* C8: send_to_anki with no candidate returns "nothing to add" and posts
\* nothing; with candidates it posts exactly one addNotes carrying one note
\* per candidate.
C8_OneBatchOrNone ==
    IsSend =>
       IF NumCards = 0
       THEN /\ calls = <<>>
            /\ response.status = 200
            /\ response.message.text = "Nenhum card novo para adicionar"
       ELSE /\ Len(calls) = 1
            /\ LastPayload.action = "addNotes"
            /\ Len(LastPayload.items) = NumCards
            /\ \A i \in 1..NumCards :
                  /\ <<"Meaning", request.flashcards[i].term_translation>>
                        \in LastPayload.items[i].fields
                  /\ <<"ExampleSentence", request.flashcards[i].english_sentence>>
                        \in LastPayload.items[i].fields

\* an empty submit has been served while the deck already holds notes
C8_Witness ==
    /\ IsSend
    /\ NumCards = 0
    /\ calls = <<>>
    /\ response.message.text = "Nenhum card novo para adicionar"
    /\ accepted # {}

\* C9: check_duplicates posts exactly one combined call with two queries per
\* candidate in request order (UniqueID = base(term_translation), then Basic
\* Front = base); when it is served, candidate i is a duplicate iff result
\* 2i-1 or result 2i (counting from 1) is non-empty.
C9_OneCallPairedResults ==
    IsCheck =>
       LET base == get_base_term(JoinWords(request.words))
       IN  /\ Len(calls) = 1
           /\ LastPayload.action = "multi"
           /\ Len(LastPayload.items) = 2 * NumCards
           /\ \A i \in 1..NumCards :
                /\ LastPayload.items[2 * i - 1] =
                      Query("", "UniqueID",
                            base \o <<"(">> \o request.flashcards[i].term_translation
                                 \o <<")">>)
                /\ LastPayload.items[2 * i] = Query("Basic", "Front", base)
           /\ LastReply.kind = "ok" =>
                /\ response.status = 200
                /\ Len(response.body) = NumCards
                /\ \A i \in 1..NumCards :
                     /\ response.body[i].flashcard = request.flashcards[i]
                     /\ response.body[i].is_duplicate
                          <=> (LastReply.result[2 * i - 1] # {}
                                 \/ LastReply.result[2 * i] # {})

\* two candidates are checked; only the second one's UniqueID query finds a note
C9_Witness ==
    /\ IsCheck /\ Posted /\ LastReply.kind = "ok"
    /\ NumCards = 2
    /\ LastReply.result[1] = {} /\ LastReply.result[2] = {}
    /\ LastReply.result[3] # {}
    /\ ~response.body[1].is_duplicate
    /\ response.body[2].is_duplicate

---------------------------------------------------------------------------
(* Generation routes                                                       *)

REQUIRED_KEYS == {"english_sentence", "portuguese_translation", "term_translation"}

\* A JSON value: a list of elements, an object or a number.  An element of a
\* list is an object, known by its keys, or a number.
JsonElement(type, keys) == [type |-> type, keys |-> keys]

JsonValue(type, keys, items) == [type |-> type, keys |-> keys, items |-> items]

Elements ==
    { JsonElement("object", REQUIRED_KEYS),
      JsonElement("object", {"english_sentence", "portuguese_translation"}),
      JsonElement("number", {}) }

JsonValues ==
    { JsonValue("list", {}, items) : items \in SeqsUpTo(Elements, MaxItems) }
    \cup { JsonValue("object", REQUIRED_KEYS, <<>>), JsonValue("number", {}, <<>>) }

\* The text of a reply, piece by piece: a code fence with or without the
\* word json, whitespace, prose, or the text of a JSON value
Piece(kind, value) == [kind |-> kind, value |-> value]

NoJson == JsonValue("none", {}, <<>>)
FenceJson == Piece("fence_json", NoJson)
Fence == Piece("fence", NoJson)
Newline == Piece("ws", NoJson)
Prose == Piece("prose", NoJson)
JsonText(v) == Piece("json", v)

ReplyTexts ==
    { <<JsonText(v)>> : v \in JsonValues }
    \cup { <<FenceJson, Newline, JsonText(v), Newline, Fence>> : v \in JsonValues }
    \cup { <<Prose, Newline, JsonText(v)>> : v \in JsonValues }
    \cup { <<Prose>>, <<>>, <<Fence, Fence>> }

\* what generate_content can do: raise, or return a response with this text
GenerationOutcomes ==
    { [kind |-> "raise", text |-> <<>>] }
    \cup { [kind |-> "text", text |-> t] : t \in ReplyTexts }

\* text.strip()
RECURSIVE LStripWs(_)
LStripWs(t) == IF t # <<>> /\ Head(t).kind = "ws" THEN LStripWs(Tail(t)) ELSE t

RECURSIVE RStripWs(_)
RStripWs(t) ==
    IF t # <<>> /\ t[Len(t)].kind = "ws" THEN RStripWs(SubSeq(t, 1, Len(t) - 1)) ELSE t

StripWs(t) == RStripWs(LStripWs(t))

\* text.replace(fence, "")
RECURSIVE Remove(_, _)
Remove(t, kind) ==
    IF t = <<>> THEN <<>>
    ELSE IF Head(t).kind = kind THEN Remove(Tail(t), kind)
    ELSE <<Head(t)>> \o Remove(Tail(t), kind)

\* response.text.strip() with both code-fence markers replaced by "", then
\* .strip() again
CleanedResponseText(text) == StripWs(Remove(Remove(StripWs(text), "fence_json"), "fence"))

\* json.loads: the text must be exactly one JSON value
Decodes(cleaned) == Len(cleaned) = 1 /\ cleaned[1].kind = "json"
JsonLoads(cleaned) == cleaned[1].value

\* the environment variable GEMINI_API_KEY
ApiKeys == {"", "FAKE_KEY_FOR_INITIALIZATION", "key"}

KeyMissing(api_key) == api_key = "" \/ api_key = "FAKE_KEY_FOR_INITIALIZATION"

\* the prompt: the term and the number of flashcards it asks for
Prompt(req) ==
    [action |-> "generate_content",
     term |-> JoinWords(req.words),
     cards |-> IF req.op = "generate_flashcards" THEN 4 ELSE 2]

\* the calls a generation route makes: none without a configured key
generate_calls(req) == IF KeyMissing(req.api_key) THEN <<>> ELSE << Prompt(req) >>

\* generate_flashcards and generate_more_flashcards: the two differ in the
\* prompt and in the wording of their errors
generate(req, outcome) ==
    IF KeyMissing(req.api_key)
    THEN Response(400, Message("A chave da API do Gemini nao foi configurada", 0, 0, 0),
                  NoJson)
    ELSE IF outcome.kind = "raise"
    THEN \* except Exception
         Response(500,
                  Message(IF req.op = "generate_flashcards"
                          THEN "Erro ao gerar flashcards"
                          ELSE "Erro ao gerar mais flashcards", 0, 0, 0),
                  NoJson)
    ELSE IF ~Decodes(CleanedResponseText(outcome.text))
    THEN \* except json.JSONDecodeError
         Response(500, Message("Erro ao decodificar a resposta da IA", 0, 0, 0), NoJson)
    ELSE Response(200, NoMessage, JsonLoads(CleanedResponseText(outcome.text)))

GenWordLists == { << <<"cats">> >>, << <<"Went">>, <<"gone">> >> }

GenRequests ==
    { [op |-> op, words |-> ws, api_key |-> k] :
        op \in {"generate_flashcards", "generate_more_flashcards"},
        ws \in GenWordLists, k \in ApiKeys }

InitGen ==
    /\ request \in GenRequests
    /\ response = NoResponse
    /\ calls = <<>>
    /\ deck = {}
    /\ accepted = {}
    /\ files = NoFiles
    /\ local = NoLocal
    /\ outputs = <<>>

\* POST /api/generate-flashcards
GenerateFlashcards ==
    /\ request.op = "generate_flashcards"
    /\ response = NoResponse
    /\ \E outcome \in (IF generate_calls(request) = <<>>
                       THEN {[kind |-> "none", text |-> <<>>]} ELSE GenerationOutcomes) :
          /\ calls' = [i \in 1..Len(generate_calls(request)) |->
                          [payload |-> generate_calls(request)[i], reply |-> outcome]]
          /\ response' = generate(request, outcome)
    /\ UNCHANGED <<request, deck, accepted, files, local, outputs>>

\* POST /api/generate-more-flashcards
GenerateMoreFlashcards ==
    /\ request.op = "generate_more_flashcards"
    /\ response = NoResponse
    /\ \E outcome \in (IF generate_calls(request) = <<>>
                       THEN {[kind |-> "none", text |-> <<>>]} ELSE GenerationOutcomes) :
          /\ calls' = [i \in 1..Len(generate_calls(request)) |->
                          [payload |-> generate_calls(request)[i], reply |-> outcome]]
          /\ response' = generate(request, outcome)
    /\ UNCHANGED <<request, deck, accepted, files, local, outputs>>

NextGen == GenerateFlashcards \/ GenerateMoreFlashcards

SpecGen == InitGen /\ [][NextGen]_vars

\* C4: on both generation routes a reply is returned as a success only if,
\* with the code fences stripped, it decodes as a JSON list of objects that
\* each hold english_sentence, portuguese_translation and term_translation;
\* every other reply is answered with a 500.
IsCardList(v) ==
    /\ v.type = "list"
    /\ \A i \in 1..Len(v.items) :
          v.items[i].type = "object" /\ REQUIRED_KEYS \subseteq v.items[i].keys

ValidReply(text) ==
    LET cleaned == StripWs(Remove(Remove(StripWs(text), "fence_json"), "fence"))
    IN  Len(cleaned) = 1 /\ cleaned[1].kind = "json" /\ IsCardList(cleaned[1].value)

C4_OnlyCardListsSucceed ==
    (request.op \in {"generate_flashcards", "generate_more_flashcards"}
        /\ calls # <<>> /\ calls[1].reply.kind = "text")
    => IF ValidReply(calls[1].reply.text)
       THEN response.status = 200
       ELSE response.status = 500

---------------------------------------------------------------------------
(* Caption source: process_video                                           *)

\* one entry of a caption set: its format and where to fetch it
Track(ext, url) == [ext |-> ext, url |-> url]

\* the resolver gives every entry a URL
Tracks ==
    { Track("json3", "u_json3"), Track("vtt", "u_vtt_1"), Track("vtt", "u_vtt_2") }

TrackLists == SeqsUpTo(Tracks, MaxTracks)

\* what extract_info returns: None, or a dict with an id (possibly missing),
\* a title, and the English entries of automatic_captions and of subtitles
\* (<<>>: no entry)
InfoDict(kind, id, auto, manual) ==
    [kind |-> kind, id |-> id, title |-> "title", auto |-> auto, manual |-> manual]

Infos ==
    { InfoDict("None", "", <<>>, <<>>), InfoDict("dict", "", <<>>, <<>>) }
    \cup { InfoDict("dict", "vid1", a, m) : a \in TrackLists, m \in TrackLists }

\* sub_info: automatic captions, and the manual ones only when there are
\* no automatic ones (a mutant that prefers the manual ones comes first)
SubInfoManualFirst(info) == IF info.manual # <<>> THEN info.manual ELSE info.auto

SubInfo(info) == IF info.auto # <<>> THEN info.auto ELSE info.manual

\* for sub in sub_info: if sub['ext'] == 'vtt': vtt_url = sub['url']; break
RECURSIVE VttUrl(_)
VttUrl(sub_info) ==
    IF sub_info = <<>> THEN ""
    ELSE IF Head(sub_info).ext = "vtt" THEN Head(sub_info).url
    ELSE VttUrl(Tail(sub_info))

\* the detail of the 500 that process_video answers for an exception
VideoError(text) ==
    Response(500,
             [Message(text, 0, 0, 0) EXCEPT !.prefix = "Falha ao processar o video"],
             <<>>)

ResolutionFailedInfo == "Nao foi possivel extrair informacoes do video"
ResolutionFailedId == "Nao foi possivel obter o ID do video"
NoCaptionsAvailable == "Nenhuma legenda em ingles (automatica ou manual) encontrada"
UnsupportedFormat == "Formato VTT da legenda nao encontrado"

\* extract_info to the choice of vtt_url: the exception raised, or "" and
\* the locals of the handler
Resolved(info) ==
    IF info.kind = "None" THEN [error |-> ResolutionFailedInfo, vtt_url |-> ""]
    ELSE IF info.id = "" THEN [error |-> ResolutionFailedId, vtt_url |-> ""]
    ELSE IF SubInfo(info) = <<>> THEN [error |-> NoCaptionsAvailable, vtt_url |-> ""]
    ELSE IF VttUrl(SubInfo(info)) = "" THEN [error |-> UnsupportedFormat, vtt_url |-> ""]
    ELSE [error |-> "", vtt_url |-> VttUrl(SubInfo(info))]

\* a caption file: well-formed WebVTT with its cues, or something else
Cue(start, end, text) == [start |-> start, end |-> end, text |-> text]

VttText(wellformed, cues) == [wellformed |-> wellformed, cues |-> cues]

CaptionBodies ==
    { VttText(TRUE, << Cue("00:01", "00:02", <<SPACE, "the", SPACE, "cats">>),
                       Cue("00:02", "00:03", <<"went", SPACE>>) >>),
      VttText(TRUE, << Cue("00:01", "00:02", <<"gone">>) >>),
      VttText(FALSE, <<>>) }

\* the captions list: every cue with its text stripped
Captions(content) ==
    [i \in 1..Len(content.cues) |->
        Cue(content.cues[i].start, content.cues[i].end, Strip(content.cues[i].text))]

SubtitlePath(video_id) == <<"downloads/", video_id, ".en.vtt">>

FileContent(path) == (CHOOSE f \in files : f.path = path).content

InitVideo ==
    /\ request = [op |-> "process_video", video_url |-> "url1"]
    /\ response = NoResponse
    /\ calls = <<>>
    /\ deck = {}
    /\ accepted = {}
    /\ files \in { NoFiles } \cup
                 { {[path |-> SubtitlePath("vid1"), content |-> c]} : c \in CaptionBodies }
    /\ local = [pc |-> "resolve", video_id |-> "", video_title |-> "",
                vtt_url |-> "", subtitle_content |-> VttText(FALSE, <<>>)]
    /\ outputs = <<>>

\* extract_info and the choice of the caption track
ResolveCaptions ==
    /\ local.pc = "resolve"
    /\ \E info \in Infos :
          /\ calls' = << [payload |-> [action |-> "extract_info", url |-> request.video_url],
                          reply |-> info] >>
          /\ IF Resolved(info).error # ""
             THEN /\ response' = VideoError(Resolved(info).error)
                  /\ local' = [local EXCEPT !.pc = "done"]
             ELSE /\ response' = response
                  /\ local' = [local EXCEPT !.pc = "download",
                                            !.video_id = info.id,
                                            !.video_title = info.title,
                                            !.vtt_url = Resolved(info).vtt_url]
    /\ UNCHANGED <<request, deck, accepted, files, outputs>>

\* subtitle_content = requests.get(vtt_url).text
DownloadCaptions ==
    /\ local.pc = "download"
    /\ \E got \in { [kind |-> "raise", text |-> VttText(FALSE, <<>>)] }
                  \cup { [kind |-> "text", text |-> c] : c \in CaptionBodies } :
          /\ calls' = Append(calls, [payload |-> [action |-> "GET", url |-> local.vtt_url],
                                     reply |-> got])
          /\ IF got.kind = "raise"
             THEN /\ response' = VideoError("RequestException")
                  /\ local' = [local EXCEPT !.pc = "done"]
             ELSE /\ response' = response
                  /\ local' = [local EXCEPT !.pc = "save", !.subtitle_content = got.text]
    /\ UNCHANGED <<request, deck, accepted, files, outputs>>

\* with open(subtitle_file_path, 'w') as f: f.write(subtitle_content)
SaveCaptions ==
    /\ local.pc = "save"
    /\ files' = { f \in files : f.path # SubtitlePath(local.video_id) }
                  \cup { [path |-> SubtitlePath(local.video_id),
                          content |-> local.subtitle_content] }
    /\ local' = [local EXCEPT !.pc = "parse"]
    /\ UNCHANGED <<request, response, calls, deck, accepted, outputs>>

\* webvtt.read(subtitle_file_path) and the reply
ParseCaptions ==
    /\ local.pc = "parse"
    /\ LET content == FileContent(SubtitlePath(local.video_id))
       IN  response' =
              IF content.wellformed
              THEN Response(200, Message("Legendas processadas com sucesso", 0, 0, 0),
                            [video_id |-> local.video_id,
                             video_title |-> local.video_title,
                             subtitles |-> Captions(content)])
              ELSE VideoError("MalformedFileError")
    /\ local' = [local EXCEPT !.pc = "done"]
    /\ UNCHANGED <<request, calls, deck, accepted, files, outputs>>

NextVideo == ResolveCaptions \/ DownloadCaptions \/ SaveCaptions \/ ParseCaptions

SpecVideo == InitVideo /\ [][NextVideo]_vars

---------------------------------------------------------------------------
(* Claim about process_video                                               *)

ResolutionDone ==
    request.op = "process_video" /\ local.pc # "resolve" /\ Len(calls) >= 1

LastInfo == calls[1].reply

Usable(info) == info.kind = "dict" /\ info.id # ""

HasVtt(tracks) == \E i \in 1..Len(tracks) : tracks[i].ext = "vtt"

\* the caption set the handler reads: automatic when present, else manual
Chosen(info) == IF info.auto # <<>> THEN info.auto ELSE info.manual

\* tracks[i] is the first WebVTT entry of tracks
FirstVttAt(tracks, i) ==
    /\ i \in 1..Len(tracks)
    /\ tracks[i].ext = "vtt"
    /\ \A j \in 1..(i - 1) : tracks[j].ext # "vtt"

FailedWith(text) == response.status = 500 /\ response.message.text = text

\* the URL the handler goes on to download, once it has one
Fetching(url) ==
    /\ local.pc = "download" => local.vtt_url = url
    /\ Len(calls) >= 2 => calls[2].payload = [action |-> "GET", url |-> url]
    /\ (local.pc = "download" \/ Len(calls) >= 2)

\* C10 as stated: NoCaptionsAvailable exactly when neither automatic nor
\* manual English captions exist; UnsupportedFormat exactly when captions
\* exist but no WebVTT track is offered among them (automatic or manual);
\* ResolutionFailed when the metadata is unusable; otherwise the first WebVTT
\* track of the selected set is downloaded.
C10_AsStated ==
    ResolutionDone =>
       LET info == LastInfo
           both == info.auto \o info.manual
       IN  IF ~Usable(info)
           THEN FailedWith(ResolutionFailedInfo) \/ FailedWith(ResolutionFailedId)
           ELSE /\ FailedWith(NoCaptionsAvailable) <=> both = <<>>
                /\ FailedWith(UnsupportedFormat) <=> (both # <<>> /\ ~HasVtt(both))

\* C10 amended: the WebVTT track is looked for in the selected set only
\* (automatic captions when there are any, otherwise the manual ones):
\* UnsupportedFormat exactly when that set has no WebVTT track, even if the
\* other set has one; otherwise its first WebVTT track is downloaded.
C10_SelectedSetDecides ==
    ResolutionDone =>
       LET info == LastInfo
           chosen == Chosen(info)
       IN  IF ~Usable(info)
           THEN FailedWith(ResolutionFailedInfo) \/ FailedWith(ResolutionFailedId)
           ELSE /\ FailedWith(NoCaptionsAvailable)
                     <=> (info.auto = <<>> /\ info.manual = <<>>)
                /\ FailedWith(UnsupportedFormat)
                     <=> (chosen # <<>> /\ ~HasVtt(chosen))
                /\ \A i \in 1..Len(chosen) :
                      FirstVttAt(chosen, i) => Fetching(chosen[i].url)

\* there are no automatic captions, the manual ones offer two WebVTT tracks
\* after another format, and the first of the two has been downloaded
C10_Witness ==
    /\ ResolutionDone
    /\ LastInfo.auto = <<>>
    /\ LastInfo.manual = << Track("vtt", "u_vtt_2"), Track("vtt", "u_vtt_1") >>
    /\ Len(calls) = 2
    /\ calls[2].payload.url = "u_vtt_2"
    /\ response.status = 200

---------------------------------------------------------------------------
(* Concurrent requests to process_video.  The route is a plain def, which  *)
(* the framework runs in a thread pool: two requests interleave at every   *)
(* blocking call and at every file operation.  Here request, response,     *)
(* calls and local hold one entry per request.                             *)

Requests == {"r1", "r2"}

\* what the resolver answers in these runs: nothing, or a video with one
\* automatic WebVTT track
ConcurrentInfos ==
    { InfoDict("None", "", <<>>, <<>>) }
    \cup { InfoDict("dict", id, << Track("vtt", "u_vtt_1") >>, <<>>) : id \in {"vid1", "vid2"} }

\* open(path, 'w') leaves the file empty until the text is written
EmptyFile == VttText(FALSE, <<>>)

WithFile(fs, path, content) ==
    { f \in fs : f.path # path } \cup { [path |-> path, content |-> content] }

\* the reply built from what webvtt.read found in the file
ParsedReply(loc, content) ==
    IF content.wellformed
    THEN Response(200, Message("Legendas processadas com sucesso", 0, 0, 0),
                  [video_id |-> loc.video_id,
                   video_title |-> loc.video_title,
                   subtitles |-> Captions(content)])
    ELSE VideoError("MalformedFileError")

InitConcurrent ==
    /\ request = [r \in Requests |-> [op |-> "process_video", video_url |-> "url1"]]
    /\ response = [r \in Requests |-> NoResponse]
    /\ calls = [r \in Requests |-> <<>>]
    /\ deck = {}
    /\ accepted = {}
    /\ files = NoFiles
    /\ local = [r \in Requests |->
                  [pc |-> "resolve", video_id |-> "", video_title |-> "",
                   vtt_url |-> "", subtitle_content |-> EmptyFile]]
    /\ outputs = <<>>

\* extract_info and the choice of the caption track, by request r
ResolveCaptionsOf(r) ==
    /\ local[r].pc = "resolve"
    /\ \E info \in ConcurrentInfos :
          /\ calls' = [calls EXCEPT ![r] =
                          << [payload |-> [action |-> "extract_info",
                                           url |-> request[r].video_url],
                              reply |-> info] >>]
          /\ IF Resolved(info).error # ""
             THEN /\ response' = [response EXCEPT ![r] = VideoError(Resolved(info).error)]
                  /\ local' = [local EXCEPT ![r].pc = "done"]
             ELSE /\ response' = response
                  /\ local' = [local EXCEPT ![r].pc = "download",
                                            ![r].video_id = info.id,
                                            ![r].video_title = info.title,
                                            ![r].vtt_url = Resolved(info).vtt_url]
    /\ UNCHANGED <<request, deck, accepted, files, outputs>>

\* subtitle_content = requests.get(vtt_url).text, by request r
DownloadCaptionsOf(r) ==
    /\ local[r].pc = "download"
    /\ \E got \in { [kind |-> "raise", text |-> EmptyFile] }
                  \cup { [kind |-> "text", text |-> c] : c \in CaptionBodies } :
          /\ calls' = [calls EXCEPT ![r] =
                          Append(@, [payload |-> [action |-> "GET", url |-> local[r].vtt_url],
                                     reply |-> got])]
          /\ IF got.kind = "raise"
             THEN /\ response' = [response EXCEPT ![r] = VideoError("RequestException")]
                  /\ local' = [local EXCEPT ![r].pc = "done"]
             ELSE /\ response' = response
                  /\ local' = [local EXCEPT ![r].pc = "open",
                                            ![r].subtitle_content = got.text]
    /\ UNCHANGED <<request, deck, accepted, files, outputs>>

\* open(subtitle_file_path, 'w'): the file is created or truncated
OpenCaptionFileOf(r) ==
    /\ local[r].pc = "open"
    /\ files' = WithFile(files, SubtitlePath(local[r].video_id), EmptyFile)
    /\ local' = [local EXCEPT ![r].pc = "write"]
    /\ UNCHANGED <<request, response, calls, deck, accepted, outputs>>

\* f.write(subtitle_content) and the close at the end of the with block
WriteCaptionFileOf(r) ==
    /\ local[r].pc = "write"
    /\ files' = WithFile(files, SubtitlePath(local[r].video_id), local[r].subtitle_content)
    /\ local' = [local EXCEPT ![r].pc = "parse"]
    /\ UNCHANGED <<request, response, calls, deck, accepted, outputs>>

\* webvtt.read(subtitle_file_path) and the reply, by request r
ParseCaptionsOf(r) ==
    /\ local[r].pc = "parse"
    /\ response' = [response EXCEPT ![r] =
                       ParsedReply(local[r], FileContent(SubtitlePath(local[r].video_id)))]
    /\ local' = [local EXCEPT ![r].pc = "done"]
    /\ UNCHANGED <<request, calls, deck, accepted, files, outputs>>

NextConcurrent ==
    \E r \in Requests :
        \/ ResolveCaptionsOf(r)
        \/ DownloadCaptionsOf(r)
        \/ OpenCaptionFileOf(r)
        \/ WriteCaptionFileOf(r)
        \/ ParseCaptionsOf(r)

SpecConcurrent == InitConcurrent /\ [][NextConcurrent]_vars

\* request r downloaded a caption body and has answered
AnsweredAfterDownload(r) ==
    /\ local[r].pc = "done"
    /\ Len(calls[r]) = 2
    /\ calls[r][2].reply.kind = "text"

\* C11: under every interleaving of two process_video requests, the same
\* video id included, a request that downloaded a caption body answers with
\* exactly the parse of that body: the other request's write to and read of
\* the saved caption file do not show in it.
C11_OwnBodyReturned ==
    \A r \in Requests :
        AnsweredAfterDownload(r)
            => response[r] = ParsedReply(local[r], calls[r][2].reply.text)

\* the same for requests that work on different video ids: each has its
\* own file, and the answer is the parse of the request's own download
C11_OwnBodyWhenIdsDiffer ==
    \A r \in Requests :
        (AnsweredAfterDownload(r)
            /\ \A q \in Requests \ {r} : local[q].video_id # local[r].video_id)
        => response[r] = ParsedReply(local[r], calls[r][2].reply.text)

=============================================================================
